---- MODULE Spec2Model ----
(***************************************************************************)
(* python-install: a PEP 427 wheel installer (src/install/__init__.py and  *)
(* its command line driver src/install/__main__.py).                       *)
(*                                                                         *)
(* fs is the file system: one map from paths (sequences of names) to      *)
(* nodes, a directory or a file whose content is a sequence of lines.      *)
(* py_version is sys.version_info, packaging_ok tells whether the          *)
(* packaging modules can be imported. log holds the calls made and how     *)
(* they ended, hist what the history of the cache directory amounts to.    *)
(* name and parsed belong to the name parser taken on its own.             *)
(***************************************************************************)
EXTENDS Integers, Sequences, FiniteSets, TLC

VARIABLES fs, py_version, packaging_ok, log, hist, name, parsed

vars == <<fs, py_version, packaging_ok, log, hist, name, parsed>>

(***************************************************************************)
(* Bounds                                                                  *)
(***************************************************************************)
MaxMerges == 2

MaxCalls == 3

MinSegs == 3

MaxSegs == 6

(***************************************************************************)
(* File system primitives (os, os.path)                                    *)
(***************************************************************************)
Dir == [kind |-> "dir", data |-> <<>>]

File(d) == [kind |-> "file", data |-> d]

\* the outcome of a call: the file system it leaves and the exception it
\* raised ("" when it returned normally)
R(f, e) == [fs |-> f, err |-> e]

exists(f, p) == p \in DOMAIN f

isdir(f, p) == p \in DOMAIN f /\ f[p].kind = "dir"

isfile(f, p) == p \in DOMAIN f /\ f[p].kind = "file"

join(p, n) == Append(p, n)

basename(p) == p[Len(p)]

dirname(p) == SubSeq(p, 1, Len(p) - 1)

\* p lies strictly below q
IsUnder(p, q) == Len(q) < Len(p) /\ SubSeq(p, 1, Len(q)) = q

listdir(f, p) ==
    { q[Len(q)] : q \in { r \in DOMAIN f : Len(r) = Len(p) + 1 /\ IsUnder(r, p) } }

Prefixes(p) == { SubSeq(p, 1, i) : i \in 1..Len(p) }

\* open(p, 'w') needs p's directory to exist
parentOK(f, p) == Len(p) = 1 \/ isdir(f, dirname(p))

write(f, p, d) == [q \in DOMAIN f \cup {p} |-> IF q = p THEN File(d) ELSE f[q]]

\* os.makedirs(p, exist_ok=True)
makedirs(f, p) ==
    IF \E q \in Prefixes(p) : isfile(f, q)
    THEN R(f, IF isfile(f, p) THEN "FileExistsError" ELSE "NotADirectoryError")
    ELSE R([q \in DOMAIN f \cup Prefixes(p) |-> IF q \in DOMAIN f THEN f[q] ELSE Dir], "")

\* shutil.rmtree(p)
rmtree(f, p) == [q \in { r \in DOMAIN f : r # p /\ ~IsUnder(r, p) } |-> f[q]]

\* The order in which os.listdir / os.scandir yields a directory's entries is
\* not specified: rev selects one fixed order or its reverse.
RECURSIVE LastOf(_)
LastOf(names) ==
    LET n == CHOOSE x \in names : TRUE
    IN  IF names = {n} THEN n ELSE LastOf(names \ {n})

Pick(names, rev) == IF rev THEN LastOf(names) ELSE CHOOSE x \in names : TRUE

(***************************************************************************)
(* _copy_dir, the directory merger                                         *)
(***************************************************************************)
\* a faulty copy that moves the file out of the source tree; C6 does not hold
\* of a merger built on it
copy2_moving(f, src, dst) ==
    LET target == IF isdir(f, dst) THEN join(dst, basename(src)) ELSE dst
    IN  IF isdir(f, target) THEN R(f, "IsADirectoryError")
        ELSE IF ~parentOK(f, target) THEN R(f, "FileNotFoundError")
        ELSE R([p \in (DOMAIN f \cup {target}) \ {src} |->
                   IF p = target THEN File(f[src].data) ELSE f[p]], "")

\* shutil.copy2(src, dst): a dst that is a directory receives the file under
\* the source's base name
copy2(f, src, dst) ==
    LET target == IF isdir(f, dst) THEN join(dst, basename(src)) ELSE dst
    IN  IF isdir(f, target) THEN R(f, "IsADirectoryError")
        ELSE IF ~parentOK(f, target) THEN R(f, "FileNotFoundError")
        ELSE R(write(f, target, f[src].data), "")

\* shutil.copytree(src, dst, dirs_exist_ok=True, ignore=lambda *_: ignore):
\* the ignore callable is asked at every directory of the walk and answers
\* the same list each time; errors of entries are collected and raised as
\* one shutil.Error after the walk.
RECURSIVE copytree(_, _, _, _, _)
RECURSIVE copytree_entries(_, _, _, _, _, _)
copytree(f, src, dst, ignore, rev) ==
    LET made == makedirs(f, dst)
    IN  IF made.err # "" THEN made
        ELSE copytree_entries(made.fs, src, dst, listdir(f, src) \ ignore, ignore, rev)

copytree_entries(f, src, dst, names, ignore, rev) ==
    IF names = {} THEN R(f, "")
    ELSE LET n == Pick(names, rev)
             one == IF isdir(f, join(src, n))
                    THEN copytree(f, join(src, n), join(dst, n), ignore, rev)
                    ELSE copy2(f, join(src, n), join(dst, n))
             rest == copytree_entries(one.fs, src, dst, names \ {n}, ignore, rev)
         IN  R(rest.fs, IF one.err # "" \/ rest.err # "" THEN "Error" ELSE "")

\* distutils.file_util.copy_file(src, dst)
copy_file(f, src, dst) ==
    LET target == IF isdir(f, dst) THEN join(dst, basename(src)) ELSE dst
    IN  IF isdir(f, target) \/ ~parentOK(f, target) THEN R(f, "DistutilsFileError")
        ELSE R(write(f, target, f[src].data), "")

\* distutils.dir_util.copy_tree(src, dst): mkpath(dst), then every entry in
\* listing order; the first error ends the walk.
RECURSIVE copy_tree(_, _, _, _)
RECURSIVE copy_tree_entries(_, _, _, _, _)
copy_tree(f, src, dst, rev) ==
    LET made == makedirs(f, dst)
    IN  IF made.err # "" THEN R(f, "DistutilsFileError")
        ELSE copy_tree_entries(made.fs, src, dst, listdir(f, src), rev)

copy_tree_entries(f, src, dst, names, rev) ==
    IF names = {} THEN R(f, "")
    ELSE LET n == Pick(names, rev)
             one == IF isdir(f, join(src, n))
                    THEN copy_tree(f, join(src, n), join(dst, n), rev)
                    ELSE copy_file(f, join(src, n), join(dst, n))
         IN  IF one.err # "" THEN one
             ELSE copy_tree_entries(one.fs, src, dst, names \ {n}, rev)

\* _copy_dir for interpreters older than 3.8: the ignore list is applied to
\* the entries of src itself only, and dst itself is never created.
RECURSIVE copy_dir_legacy(_, _, _, _, _)
copy_dir_legacy(f, src, dst, names, rev) ==
    IF names = {} THEN R(f, "")
    ELSE LET n == Pick(names, rev)
             one == IF isdir(f, join(src, n))
                    THEN copy_tree(f, join(src, n), join(dst, n), rev)
                    ELSE copy2(f, join(src, n), join(dst, n))
         IN  IF one.err # "" THEN one
             ELSE copy_dir_legacy(one.fs, src, dst, names \ {n}, rev)

\* sys.version_info >= (major, minor)
version_ge(v, w) == v[1] > w[1] \/ (v[1] = w[1] /\ v[2] >= w[2])

_copy_dir(f, ver, src, dst, ignore, rev) ==
    IF ~isdir(f, src) THEN R(f, "FileNotFoundError")
    ELSE IF version_ge(ver, <<3, 8>>)
    THEN copytree(f, src, dst, ignore, rev)
    ELSE copy_dir_legacy(f, src, dst, listdir(f, src) \ ignore, rev)

(***************************************************************************)
(* parse_name: _WHEEL_NAME_REGEX.match(name)                               *)
(*   (.+)-(.+)(-(.+))?-(.+)-(.+)-(.+).whl                                  *)
(* matched from the start of the name by a backtracking matcher: every     *)
(* group is greedy, the optional group is tried before it is skipped, and  *)
(* nothing anchors the end of the name.                                    *)
(***************************************************************************)
None == "<None>"

NoMatch == <<0>>

Max(S) == CHOOSE x \in S : \A y \in S : y <= x

\* the rest of the pattern, n times "-(.+)" and then ".whl", matched from the
\* character at p: the end positions of the n groups, each as far right as
\* the rest allows
RECURSIVE tail_match(_, _, _)
tail_match(s, n, p) ==
    IF n = 0
    THEN IF p + 3 <= Len(s) /\ SubSeq(s, p + 1, p + 3) = "whl" THEN <<>> ELSE NoMatch
    ELSE IF p > Len(s) \/ SubSeq(s, p, p) # "-" THEN NoMatch
    ELSE LET ends == { e \in (p + 1)..Len(s) : tail_match(s, n - 1, e + 1) # NoMatch }
         IN  IF ends = {} THEN NoMatch
             ELSE <<Max(ends)>> \o tail_match(s, n - 1, Max(ends) + 1)

\* what follows the version group: the build tag group if the rest matches
\* with it, else the rest without it
after_version(s, p) ==
    IF tail_match(s, 4, p) # NoMatch THEN tail_match(s, 4, p) ELSE tail_match(s, 3, p)

\* the end positions <<distribution, version, ...>> of the match, or NoMatch
regex_match(s) ==
    LET vends(e1) == { e2 \in (e1 + 2)..Len(s) : after_version(s, e2 + 1) # NoMatch }
        dends == { e1 \in 1..Len(s) :
                     /\ e1 < Len(s)
                     /\ SubSeq(s, e1 + 1, e1 + 1) = "-"
                     /\ vends(e1) # {} }
    IN  IF dends = {} THEN NoMatch
        ELSE LET e1 == Max(dends)
                 e2 == Max(vends(e1))
             IN  <<e1, e2>> \o after_version(s, e2 + 1)

\* match.groupdict(), or the InstallException('Invalid wheel name')
parse_name(s) ==
    LET m == regex_match(s)
        g(i) == SubSeq(s, m[i - 1] + 2, m[i])
    IN  IF m = NoMatch
        THEN [ok |-> FALSE, distribution |-> "", version |-> "", build_tag |-> "",
              python_tag |-> "", abi_tag |-> "", platform_tag |-> ""]
        ELSE IF Len(m) = 6
        THEN [ok |-> TRUE, distribution |-> SubSeq(s, 1, m[1]), version |-> g(2),
              build_tag |-> g(3), python_tag |-> g(4), abi_tag |-> g(5),
              platform_tag |-> g(6)]
        ELSE [ok |-> TRUE, distribution |-> SubSeq(s, 1, m[1]), version |-> g(2),
              build_tag |-> None, python_tag |-> g(3), abi_tag |-> g(4),
              platform_tag |-> g(5)]

(***************************************************************************)
(* Strings (str.split, str.strip, int)                                     *)
(***************************************************************************)
startswith(s, pre) == Len(s) >= Len(pre) /\ SubSeq(s, 1, Len(pre)) = pre

endswith(s, suf) == Len(s) >= Len(suf) /\ SubSeq(s, Len(s) - Len(suf) + 1, Len(s)) = suf

\* s.split(sep) for a separator of one character; cur is the piece being read
RECURSIVE split(_, _, _)
split(s, sep, cur) ==
    IF s = "" THEN <<cur>>
    ELSE IF SubSeq(s, 1, 1) = sep THEN <<cur>> \o split(SubSeq(s, 2, Len(s)), sep, "")
    ELSE split(SubSeq(s, 2, Len(s)), sep, cur \o SubSeq(s, 1, 1))

RECURSIVE lstrip(_)
lstrip(s) == IF s # "" /\ SubSeq(s, 1, 1) = " " THEN lstrip(SubSeq(s, 2, Len(s))) ELSE s

RECURSIVE rstrip(_)
rstrip(s) ==
    IF s # "" /\ SubSeq(s, Len(s), Len(s)) = " " THEN rstrip(SubSeq(s, 1, Len(s) - 1)) ELSE s

strip(s) == rstrip(lstrip(s))

\* the position of the first character of s that is in seps, 0 if none
first_of(s, seps) ==
    LET hits == { i \in 1..Len(s) : SubSeq(s, i, i) \in seps }
    IN  IF hits = {} THEN 0 ELSE CHOOSE i \in hits : \A j \in hits : i <= j

is_digits(s) == s # "" /\ \A i \in 1..Len(s) : \E d \in 0..9 : ToString(d) = SubSeq(s, i, i)

\* int(s) for a string of digits
RECURSIVE to_int(_)
to_int(s) ==
    IF s = "" THEN 0
    ELSE 10 * to_int(SubSeq(s, 1, Len(s) - 1))
         + (CHOOSE d \in 0..9 : ToString(d) = SubSeq(s, Len(s), Len(s)))

\* a > b for tuples of integers
RECURSIVE tuple_gt(_, _)
tuple_gt(a, b) ==
    IF a = <<>> THEN FALSE
    ELSE IF b = <<>> THEN TRUE
    ELSE IF a[1] # b[1] THEN a[1] > b[1]
    ELSE tuple_gt(Tail(a), Tail(b))

(***************************************************************************)
(* The environment                                                         *)
(***************************************************************************)
\* sys.executable
sys_executable == "/usr/bin/python"

\* the distributions importlib.metadata finds installed
Installed == { "dep" }

\* sysconfig.get_path(lib), split at os.sep
get_path(lib) ==
    CASE lib = "purelib" -> <<"", "lib">>
      [] lib = "platlib" -> <<"", "lib64">>
      [] lib = "scripts" -> <<"", "bin">>
      [] OTHER -> <<>>

destdir_path(destdir, lib) == destdir \o Tail(get_path(lib))

(***************************************************************************)
(* build and its steps                                                     *)
(***************************************************************************)
SUPPORTED_WHEEL_VERSION == <<1, 0>>

\* zipfile.ZipFile(wheel).extractall(dst): the members are written in archive
\* order, the first error ends the extraction
RECURSIVE extract_members(_, _, _, _)
extract_members(f, files, todo, dst) ==
    IF todo = {} THEN R(f, "")
    ELSE LET m == CHOOSE x \in todo : TRUE
             made == makedirs(f, dirname(dst \o m))
         IN  IF made.err # "" THEN R(f, made.err)
             ELSE IF isdir(made.fs, dst \o m) THEN R(made.fs, "IsADirectoryError")
             ELSE extract_members(write(made.fs, dst \o m, files[m]), files, todo \ {m}, dst)

extractall(f, wheel, dst) ==
    IF wheel.corrupt THEN R(f, "BadZipFile")
    ELSE extract_members(f, wheel.files, DOMAIN wheel.files, dst)

\* the "key: value" lines of a file as a dictionary: a line is split at every
\* colon and counts when that gives two pieces; a later line wins
colon_entries(lines) ==
    LET entry(i) == split(lines[i], ":", "")
        good == { i \in 1..Len(lines) : Len(entry(i)) = 2 }
        keys == { strip(entry(i)[1]) : i \in good }
        last(k) == Max({ i \in good : strip(entry(i)[1]) = k })
    IN  [k \in keys |-> strip(entry(last(k))[2])]

_read_wheel_metadata(f, dist_info) ==
    IF ~isfile(f, join(dist_info, "WHEEL"))
    THEN [err |-> "FileNotFoundError", metadata |-> <<>>]
    ELSE [err |-> "", metadata |-> colon_entries(f[join(dist_info, "WHEEL")].data)]

\* tuple(map(int, metadata['Wheel-Version'].split('.'))) > _SUPPORTED_WHEEL_VERSION
wheel_version_error(metadata) ==
    IF "Wheel-Version" \notin DOMAIN metadata THEN "KeyError"
    ELSE LET parts == split(metadata["Wheel-Version"], ".", "")
         IN  IF \E i \in 1..Len(parts) : ~is_digits(strip(parts[i])) THEN "ValueError"
             ELSE IF tuple_gt([i \in 1..Len(parts) |-> to_int(strip(parts[i]))],
                              SUPPORTED_WHEEL_VERSION)
             THEN "InstallException: Unsupported wheel version"
             ELSE ""

\* the values of the header key in the METADATA file of the distribution
metadata_get_all(f, dist_info, key) ==
    LET lines == IF isfile(f, join(dist_info, "METADATA"))
                 THEN f[join(dist_info, "METADATA")].data ELSE <<>>
        at(i) == first_of(lines[i], {":"})
        hits == SelectSeq([i \in 1..Len(lines) |-> i],
                          LAMBDA i : at(i) > 0 /\ strip(SubSeq(lines[i], 1, at(i) - 1)) = key)
    IN  [j \in 1..Len(hits) |->
            strip(SubSeq(lines[hits[j]], at(hits[j]) + 1, Len(lines[hits[j]])))]

\* the release <<major, minor>> a version string names
release_of(s) ==
    LET parts == split(s, ".", "")
    IN  <<to_int(parts[1]), IF Len(parts) > 1 THEN to_int(parts[2]) ELSE 0>>

\* platform.python_version() in packaging.specifiers.Specifier(spec), for the
\* operators >= and <
specifier_contains(spec, ver) ==
    IF startswith(strip(spec), ">=")
    THEN version_ge(ver, release_of(strip(SubSeq(strip(spec), 3, Len(strip(spec))))))
    ELSE ~version_ge(ver, release_of(strip(SubSeq(strip(spec), 2, Len(strip(spec))))))

\* a requirement that is a bare distribution name: is it installed
_check_requirement(requirement_string) == strip(requirement_string) \in Installed

\* a faulty verifier that checks Requires-Dist whether or not verification is
\* requested; C7 does not hold of it
_verify_compability_always(f, ver, dir, verify_dependencies, pk_ok) ==
    LET py_ver == metadata_get_all(f, dir, "Requires-Python")
        py_vers == IF py_ver = <<>> THEN <<>> ELSE split(py_ver[1], ",", "")
        reqs == metadata_get_all(f, dir, "Requires-Dist")
    IN  IF ~pk_ok
        THEN [err |-> "", warned |-> {"InstallWarning"}]
        ELSE IF \E i \in 1..Len(py_vers) : ~specifier_contains(py_vers[i], ver)
        THEN [err |-> "InstallException: Incompatible python version", warned |-> {}]
        ELSE IF \E i \in 1..Len(reqs) : ~_check_requirement(reqs[i])
        THEN [err |-> "InstallException: Missing dependency", warned |-> {}]
        ELSE [err |-> "", warned |-> {}]

\* pk_ok: the packaging and importlib metadata modules can be imported
_verify_compability(f, ver, dir, verify_dependencies, pk_ok) ==
    LET py_ver == metadata_get_all(f, dir, "Requires-Python")
        py_vers == IF py_ver = <<>> THEN <<>> ELSE split(py_ver[1], ",", "")
        reqs == metadata_get_all(f, dir, "Requires-Dist")
    IN  IF ~pk_ok
        THEN [err |-> "", warned |-> {"InstallWarning"}]
        ELSE IF \E i \in 1..Len(py_vers) : ~specifier_contains(py_vers[i], ver)
        THEN [err |-> "InstallException: Incompatible python version", warned |-> {}]
        ELSE IF verify_dependencies /\ \E i \in 1..Len(reqs) : ~_check_requirement(reqs[i])
        THEN [err |-> "InstallException: Missing dependency", warned |-> {}]
        ELSE [err |-> "", warned |-> {}]

\* the name of the byte code file of source n at an optimization level
pyc_name(n, ver, level) ==
    SubSeq(n, 1, Len(n) - 3) \o ".cpython-" \o ToString(ver[1]) \o ToString(ver[2])
        \o (IF level = 0 THEN "" ELSE ".opt-" \o ToString(level)) \o ".pyc"

\* compileall.compile_dir(dir, optimize=level): every *.py file below dir and
\* outside a __pycache__ gets a byte code file; a file that cannot be
\* written is reported and skipped
RECURSIVE compile_files(_, _, _, _)
compile_files(f, ver, level, todo) ==
    IF todo = {} THEN f
    ELSE LET p == CHOOSE x \in todo : TRUE
             cdir == join(dirname(p), "__pycache__")
             pyc == join(cdir, pyc_name(basename(p), ver, level))
             made == makedirs(f, cdir)
             next == IF made.err # "" \/ isdir(made.fs, pyc) THEN f
                     ELSE write(made.fs, pyc, <<"pyc">> \o f[p].data)
         IN  compile_files(next, ver, level, todo \ {p})

compile_dir(f, ver, dir, level) ==
    compile_files(f, ver, level,
        { p \in DOMAIN f : /\ IsUnder(p, dir) /\ isfile(f, p)
                           /\ endswith(basename(p), ".py")
                           /\ \A i \in 1..Len(p) : p[i] # "__pycache__" })

RECURSIVE compile_levels(_, _, _, _)
compile_levels(f, ver, dir, optimize) ==
    IF optimize = <<>> THEN f
    ELSE compile_levels(compile_dir(f, ver, dir, optimize[1]), ver, dir, Tail(optimize))

\* the name = value items of the console_scripts section, in file order
console_scripts(lines) ==
    LET head == { i \in 1..Len(lines) : strip(lines[i]) = "[console_scripts]" }
        start == IF head = {} THEN 0 ELSE Max(head)
        stops == { i \in (start + 1)..Len(lines) : startswith(lines[i], "[") }
        stop == IF stops = {} THEN Len(lines) + 1
                ELSE CHOOSE i \in stops : \A j \in stops : i <= j
        items == SelectSeq([i \in 1..Len(lines) |-> i],
                           LAMBDA i : /\ start < i /\ i < stop
                                      /\ first_of(lines[i], {"=", ":"}) > 0)
    IN  [j \in 1..Len(items) |->
            LET l == lines[items[j]]
            IN  <<strip(SubSeq(l, 1, first_of(l, {"=", ":"}) - 1)),
                  strip(SubSeq(l, first_of(l, {"=", ":"}) + 1, Len(l)))>>]

has_console_scripts(lines) == \E i \in 1..Len(lines) : strip(lines[i]) = "[console_scripts]"

\* the launcher installer.scripts.Script(...).generate(sys.executable) writes
launcher(package, call) == <<"#!" \o sys_executable, "from " \o package \o " import " \o call>>

RECURSIVE write_launchers(_, _, _)
write_launchers(f, dir, items) ==
    IF items = <<>> THEN R(f, "")
    ELSE LET parts == split(items[1][2], ":", "")
         IN  IF Len(parts) # 2 THEN R(f, "ValueError")
             ELSE IF isdir(f, join(dir, items[1][1])) THEN R(f, "IsADirectoryError")
             ELSE IF ~isdir(f, dir) THEN R(f, "NotADirectoryError")
             ELSE write_launchers(write(f, join(dir, items[1][1]), launcher(parts[1], parts[2])),
                                  dir, Tail(items))

_generate_entrypoint_scripts(f, file, dir) ==
    IF ~has_console_scripts(f[file].data) THEN R(f, "")
    ELSE LET made == IF exists(f, dir) THEN f
                     ELSE [q \in DOMAIN f \cup {dir} |-> IF q = dir THEN Dir ELSE f[q]]
         IN  write_launchers(made, dir, console_scripts(f[file].data))

\* re.sub(r'^#!python', '#!' + interpreter, line) on the first line
first_line(data, interpreter) ==
    IF data # <<>> /\ startswith(data[1], "#!python")
    THEN <<"#!" \o interpreter \o SubSeq(data[1], 9, Len(data[1]))>> \o Tail(data)
    ELSE data

_replace_shebang(f, dir, interpreter) ==
    LET scripts == { join(dir, n) : n \in listdir(f, dir) }
    IN  IF \E p \in scripts : ~isfile(f, p)
        THEN R(f, "InstallException: Script is not a file")
        ELSE R([p \in DOMAIN f |->
                   IF p \in scripts THEN File(first_line(f[p].data, interpreter)) ELSE f[p]], "")

\* pickle.dump of a dictionary of strings: key and value lines in turn
RECURSIVE pickle_dumps(_, _)
pickle_dumps(d, keys) ==
    IF keys = {} THEN <<>>
    ELSE LET k == CHOOSE x \in keys : TRUE
         IN  <<k, d[k]>> \o pickle_dumps(d, keys \ {k})

pickle_loads(lines) ==
    [k \in { lines[2 * i - 1] : i \in 1..(Len(lines) \div 2) } |->
        lines[2 * (CHOOSE i \in 1..(Len(lines) \div 2) : lines[2 * i - 1] = k)]]

_save_pickle(f, dir, nm, data) ==
    IF ~isdir(f, dir) THEN R(f, "FileNotFoundError")
    ELSE R(write(f, join(dir, nm \o ".pickle"), pickle_dumps(data, DOMAIN data)), "")

_load_pickle(f, dir, nm) ==
    IF ~isfile(f, join(dir, nm \o ".pickle"))
    THEN [err |-> "FileNotFoundError", data |-> <<>>]
    ELSE [err |-> "", data |-> pickle_loads(f[join(dir, nm \o ".pickle")].data)]

GroupNames ==
    { "distribution", "version", "build_tag", "python_tag", "abi_tag", "platform_tag" }

\* the outcome of build or install: the file system, the exception raised and
\* the warnings issued
Out(f, e, w) == [fs |-> f, err |-> e, warned |-> w]

\* the paths build works on
build_paths(cache, wheel_info) ==
    LET pkg_cache_dir == join(cache, "pkg")
        package == wheel_info.distribution \o "-" \o wheel_info.version
    IN  [pkg_cache_dir |-> pkg_cache_dir,
         scripts_cache_dir |-> join(cache, "scripts"),
         dist_info |-> join(pkg_cache_dir, package \o ".dist-info"),
         entrypoints_file |-> join(join(pkg_cache_dir, package \o ".dist-info"),
                                   "entry_points.txt"),
         scripts_dir |-> join(join(pkg_cache_dir, package \o ".data"), "scripts")]

\* _save_pickle(cache_dir, 'metadata', metadata), after the first record
build_saved(s5, cache, md, warned) ==
    IF s5.err # "" THEN Out(s5.fs, s5.err, warned)
    ELSE LET s6 == _save_pickle(s5.fs, cache, "metadata", md.metadata)
         IN  Out(s6.fs, s6.err, warned)

\* _save_pickle(cache_dir, 'wheel-info', wheel_info), after the shebangs
build_save(s4, cache, wheel_info, md, warned) ==
    IF s4.err # "" THEN Out(s4.fs, s4.err, warned)
    ELSE build_saved(_save_pickle(s4.fs, cache, "wheel-info",
                                  [k \in GroupNames |-> wheel_info[k]]),
                     cache, md, warned)

\* if os.path.isdir(scripts_dir): _replace_shebang(...), after the launchers
build_shebang(s3, cache, wheel_info, at, md, warned) ==
    IF s3.err # "" THEN Out(s3.fs, s3.err, warned)
    ELSE build_save(IF isdir(s3.fs, at.scripts_dir)
                    THEN _replace_shebang(s3.fs, at.scripts_dir, sys_executable)
                    ELSE R(s3.fs, ""),
                    cache, wheel_info, md, warned)

\* if os.path.isfile(entrypoints_file): _generate_entrypoint_scripts(...),
\* after the precompilation
build_scripts(s2, cache, wheel_info, at, md, warned) ==
    build_shebang(IF isfile(s2, at.entrypoints_file)
                  THEN _generate_entrypoint_scripts(s2, at.entrypoints_file,
                                                    at.scripts_cache_dir)
                  ELSE R(s2, ""),
                  cache, wheel_info, at, md, warned)

\* the Wheel-Version check, _verify_compability and the precompilation, after
\* the WHEEL file is read
build_verify(f, ver, cache, optimize, wheel_info, at, md, compat) ==
    IF md.err # "" THEN Out(f, md.err, {})
    ELSE IF wheel_version_error(md.metadata) # ""
    THEN Out(f, wheel_version_error(md.metadata), {})
    ELSE IF compat.err # "" THEN Out(f, compat.err, compat.warned)
    ELSE build_scripts(compile_levels(f, ver, at.pkg_cache_dir, optimize),
                       cache, wheel_info, at, md, compat.warned)

\* _read_wheel_metadata(dist_info), after the extraction
build_extracted(s1, ver, cache, optimize, verify_dependencies, pk_ok, wheel_info, at) ==
    IF s1.err # "" THEN Out(s1.fs, s1.err, {})
    ELSE build_verify(s1.fs, ver, cache, optimize, wheel_info, at,
                      _read_wheel_metadata(s1.fs, at.dist_info),
                      _verify_compability(s1.fs, ver, at.dist_info, verify_dependencies,
                                          pk_ok))

\* wheel_zip.extractall(pkg_cache_dir), after the name is parsed
build_parsed(f, ver, wheel, cache, optimize, verify_dependencies, pk_ok, wheel_info) ==
    IF ~wheel_info.ok THEN Out(f, "InstallException: Invalid wheel name", {})
    ELSE build_extracted(extractall(f, wheel, join(cache, "pkg")), ver, cache, optimize,
                         verify_dependencies, pk_ok, wheel_info,
                         build_paths(cache, wheel_info))

build(f, ver, wheel, cache, optimize, verify_dependencies, pk_ok) ==
    build_parsed(f, ver, wheel, cache, optimize, verify_dependencies, pk_ok,
                 parse_name(wheel.name))

(***************************************************************************)
(* install                                                                 *)
(***************************************************************************)
\* a faulty selection that sends every value but "false" to purelib; C2 does
\* not hold of it
root_lib_unless_false(metadata) ==
    IF metadata["Root-Is-Purelib"] # "false" THEN "purelib" ELSE "platlib"

\* 'purelib' if metadata['Root-Is-Purelib'] == 'true' else 'platlib'
root_lib(metadata) == IF metadata["Root-Is-Purelib"] = "true" THEN "purelib" ELSE "platlib"

\* for lib in ['purelib', 'platlib']: a directory of that name at the staging
\* root is merged into the path of that role
RECURSIVE install_libs(_, _, _, _, _, _)
install_libs(f, ver, pkg_cache_dir, destdir, libs, rev) ==
    IF libs = <<>> THEN R(f, "")
    ELSE LET one == IF isdir(f, join(pkg_cache_dir, libs[1]))
                    THEN _copy_dir(f, ver, join(pkg_cache_dir, libs[1]),
                                   destdir_path(destdir, libs[1]), {}, rev)
                    ELSE R(f, "")
         IN  IF one.err # "" THEN one
             ELSE install_libs(one.fs, ver, pkg_cache_dir, destdir, Tail(libs), rev)

\* for node in os.listdir(pkg_data_dir): the three ifs, whose else belongs to
\* the last one; warn_error: the warning is raised as an exception
RECURSIVE install_data(_, _, _, _, _, _, _)
install_data(st, ver, pkg_cache_dir, destdir, nodes, rev, warn_error) ==
    IF nodes = {} THEN st
    ELSE LET node == Pick(nodes, rev)
             target == join(pkg_cache_dir, node)
             one == IF node \in {"purelib", "platlib", "scripts"}
                    THEN _copy_dir(st.fs, ver, target, destdir_path(destdir, node), {}, rev)
                    ELSE R(st.fs, "")
         IN  IF one.err # "" THEN Out(one.fs, one.err, st.warned)
             ELSE IF node # "scripts" /\ warn_error
             THEN Out(one.fs, "IncompleteInstallationWarning", st.warned)
             ELSE install_data(
                      Out(one.fs, "",
                          IF node # "scripts"
                          THEN st.warned \cup {"Unhandled data folder: " \o node}
                          ELSE st.warned),
                      ver, pkg_cache_dir, destdir, nodes \ {node}, rev, warn_error)

\* step (d): the generated launchers, after step (c)
install_scripts(c, ver, cache, destdir, rev) ==
    IF c.err # "" THEN c
    ELSE IF isdir(c.fs, join(cache, "scripts"))
    THEN LET d == _copy_dir(c.fs, ver, join(cache, "scripts"),
                            destdir_path(destdir, "scripts"), {}, rev)
         IN  Out(d.fs, d.err, c.warned)
    ELSE c

\* step (c): if os.path.isdir(pkg_data_dir), after step (b)
install_nodes(b, ver, cache, destdir, rev, warn_error, pkg_data_dir) ==
    IF b.err # "" THEN Out(b.fs, b.err, {})
    ELSE install_scripts(IF isdir(b.fs, pkg_data_dir)
                         THEN install_data(Out(b.fs, "", {}), ver, join(cache, "pkg"),
                                           destdir, listdir(b.fs, pkg_data_dir), rev,
                                           warn_error)
                         ELSE Out(b.fs, "", {}),
                         ver, cache, destdir, rev)

\* step (b), after step (a)
install_roles(a, ver, cache, destdir, rev, warn_error, pkg_data_dir) ==
    IF a.err # "" THEN Out(a.fs, a.err, {})
    ELSE install_nodes(install_libs(a.fs, ver, join(cache, "pkg"), destdir,
                                    <<"purelib", "platlib">>, rev),
                       ver, cache, destdir, rev, warn_error, pkg_data_dir)

\* step (a): the staging root into the root library path, with the ignore list
install_root(f, ver, cache, destdir, rev, warn_error, pkg_data_dir_name, pkg_dir) ==
    install_roles(_copy_dir(f, ver, join(cache, "pkg"), pkg_dir,
                            {"purelib", "platlib", pkg_data_dir_name}, rev),
                  ver, cache, destdir, rev, warn_error, join(cache, pkg_data_dir_name))

\* after the two records are loaded
install_loaded(f, ver, cache, destdir, rev, warn_error, wheel_info, metadata) ==
    IF wheel_info.err # "" THEN Out(f, wheel_info.err, {})
    ELSE IF metadata.err # "" THEN Out(f, metadata.err, {})
    ELSE IF "Root-Is-Purelib" \notin DOMAIN metadata.data THEN Out(f, "KeyError", {})
    ELSE install_root(f, ver, cache, destdir, rev, warn_error,
                      wheel_info.data["distribution"] \o "-" \o wheel_info.data["version"]
                          \o ".data",
                      destdir_path(destdir, root_lib(metadata.data)))

install(f, ver, cache, destdir, rev, warn_error) ==
    install_loaded(f, ver, cache, destdir, rev, warn_error,
                   _load_pickle(f, cache, "wheel-info"), _load_pickle(f, cache, "metadata"))

(***************************************************************************)
(* python -m install                                                       *)
(***************************************************************************)
\* cache_dir = '.install-cache'
cache_dir == <<"cache">>

\* a faulty driver that keeps the cache directory of an earlier run; C10 does
\* not hold of it
clear_cache_never(f, skip_build) == f

\* a cache directory left by an earlier run is removed unless --skip-build
clear_cache(f, skip_build) ==
    IF isdir(f, cache_dir) /\ ~skip_build THEN rmtree(f, cache_dir) ELSE f

\* the outcome of a run: what build and install did ("skipped": not called)
Ran(f, e, w, b, i) == [fs |-> f, err |-> e, warned |-> w, build |-> b, install |-> i]

\* install(cache_dir, args.destdir), after the build
main_install(b, ver, args, rev, built, i) ==
    IF b.err # "" THEN Ran(b.fs, b.err, b.warned, "failed", "skipped")
    ELSE IF args.cache THEN Ran(b.fs, "", b.warned, built, "skipped")
    ELSE IF ~isdir(b.fs, cache_dir)
    THEN Ran(b.fs, "Missing installation cache", b.warned, built, "skipped")
    ELSE Ran(i.fs, i.err, b.warned \cup i.warned, built,
             IF i.err = "" THEN "ok" ELSE "failed")

\* build(args.wheel, cache_dir, ...) unless --skip-build, after the cache
\* directory of an earlier run is removed
main_build(b, ver, args, rev) ==
    main_install(b, ver, args, rev, IF args.skip_build THEN "skipped" ELSE "ok",
                 install(b.fs, ver, cache_dir, args.destdir, rev,
                         ~args.ignore_incomplete_installation_warnings))

main_cleared(cleared, ver, args, pk_ok, rev) ==
    main_build(IF args.skip_build THEN Out(cleared, "", {})
               ELSE build(cleared, ver, args.wheel, cache_dir, args.optimize,
                          args.verify_dependencies, pk_ok),
               ver, args, rev)

main(f, ver, args, pk_ok, rev) ==
    IF args.cache /\ args.skip_build
    THEN Ran(f, "--cache and --skip-build can't be used together", {}, "skipped", "skipped")
    ELSE IF args.wheel.name = "" /\ ~args.skip_build
    THEN Ran(f, "Missing argument: wheel", {}, "skipped", "skipped")
    ELSE IF exists(f, cache_dir) /\ ~isdir(f, cache_dir)
    THEN Ran(f, "The cache path exists and it's not a directory", {}, "skipped", "skipped")
    ELSE main_cleared(clear_cache(f, args.skip_build), ver, args, pk_ok, rev)

(***************************************************************************)
(* The merger on its own: a source tree under /src, a destination tree     *)
(* under /dst, the same merge run up to MaxMerges times.                   *)
(***************************************************************************)
SRC == <<"src">>

DST == <<"dst">>

NewData == << <<"new">> >>

OldData == << <<"old">> >>

\* a tree: the files F (path -> content), the empty directories E, and every
\* directory above them
MkTree(F, E) ==
    LET paths == UNION { Prefixes(p) : p \in DOMAIN F \cup E }
    IN  [p \in paths |-> IF p \in DOMAIN F THEN File(F[p]) ELSE Dir]

Consistent(FP, E) ==
    /\ FP \cap E = {}
    /\ \A p \in FP : \A q \in FP \cup E : ~IsUnder(q, p)

Mount(root, t) ==
    [p \in {root} \cup { root \o q : q \in DOMAIN t } |->
        IF p = root THEN Dir ELSE t[SubSeq(p, Len(root) + 1, Len(p))]]

SrcFiles == { <<"a">>, <<"m", "a">>, <<"m", "platlib", "x">>, <<"platlib", "y">> }

DstFiles == { <<"a">>, <<"a", "a">>, <<"keep">>, <<"m">> }

DstDirs == { <<"a">>, <<"a", "a">>, <<"m">> }

SrcTrees == { MkTree([p \in FP |-> NewData], {}) : FP \in (SUBSET SrcFiles) \ {{}} }

DstTrees ==
    { MkTree([p \in FP |-> OldData], E) :
        <<FP, E>> \in { x \in (SUBSET DstFiles) \X (SUBSET DstDirs) : Consistent(x[1], x[2]) } }

IgnoreLists == { {}, {"platlib"}, {"a"} }

Versions == { <<3, 7>>, <<3, 8>> }

\* the tree below root, by relative path
TreeAt(f, root) ==
    [q \in { SubSeq(p, Len(root) + 1, Len(p)) : p \in { r \in DOMAIN f : IsUnder(r, root) } }
        |-> f[root \o q]]

InitMerge ==
    /\ \E s \in SrcTrees, d \in DstTrees, present \in BOOLEAN :
          fs = IF present THEN Mount(SRC, s) @@ Mount(DST, d) ELSE Mount(SRC, s)
    /\ py_version \in Versions
    /\ packaging_ok = TRUE
    /\ log = <<>>
    /\ hist = [n |-> 0]
    /\ name = ""
    /\ parsed = [done |-> FALSE]

Merge(ignore, rev) ==
    /\ Len(log) < MaxMerges
    /\ log # <<>> => ignore = log[1].ignore
    /\ LET r == _copy_dir(fs, py_version, SRC, DST, ignore, rev)
       IN  /\ fs' = r.fs
           /\ log' = Append(log, [op |-> "_copy_dir", ok |-> r.err = "", err |-> r.err,
                                  ignore |-> ignore, before |-> fs])
    /\ UNCHANGED <<py_version, packaging_ok, hist, name, parsed>>

NextMerge == \E ignore \in IgnoreLists, rev \in BOOLEAN : Merge(ignore, rev)

SpecMerge == InitMerge /\ [][NextMerge]_vars

(***************************************************************************)
(* The installer: wheels, destination roots, and calls of build, install   *)
(* and the command line, MaxCalls of them.                                 *)
(***************************************************************************)
WHEEL(wheel_version, root_is_purelib) ==
    <<"Wheel-Version: " \o wheel_version, "Root-Is-Purelib: " \o root_is_purelib,
      "Tag: py3-none-any">>

METADATA(more) == <<"Metadata-Version: 2.1", "Name: pkg">> \o more

PySource == <<"import sys">>

Wheel(nm, wheel_lines, metadata_lines, payload) ==
    [name |-> nm, corrupt |-> FALSE,
     files |-> (<<"pkg-1.0.dist-info", "WHEEL">> :> wheel_lines)
               @@ (<<"pkg-1.0.dist-info", "METADATA">> :> metadata_lines)
               @@ payload]

GoodName == "pkg-1.0-py3-none-any.whl"

\* one library file at the root, one packaged script with the placeholder
WScripts ==
    Wheel(GoodName, WHEEL("1.0", "true"), METADATA(<<>>),
          (<<"lib.py">> :> PySource)
          @@ (<<"pkg-1.0.data", "scripts", "foo">> :> <<"#!python", "print(1)">>))

\* a platform wheel with a console script and a dependency that is installed
WPlat ==
    Wheel(GoodName, WHEEL("1.0", "false"), METADATA(<<"Requires-Dist: dep">>),
          (<<"ext.py">> :> PySource)
          @@ (<<"pkg-1.0.dist-info", "entry_points.txt">> :>
                <<"[console_scripts]", "tool = pkg.cli:main">>))

\* Root-Is-Purelib neither true nor false; a payload directory named platlib
\* below the top level; role directories at the staging root and in the data
\* directory
WNested ==
    Wheel(GoodName, WHEEL("1.0", "True"), METADATA(<<>>),
          (<<"mypkg", "a.py">> :> PySource)
          @@ (<<"mypkg", "platlib", "x.py">> :> PySource)
          @@ (<<"purelib", "q.py">> :> PySource)
          @@ (<<"pkg-1.0.data", "purelib", "p.py">> :> PySource)
          @@ (<<"pkg-1.0.data", "headers", "h.h">> :> <<"#define H">>))

\* a dependency that is not installed
WDeps ==
    Wheel(GoodName, WHEEL("1.0", "true"),
          METADATA(<<"Requires-Python: >=3.6", "Requires-Dist: nodep">>),
          <<"lib.py">> :> PySource)

\* an interpreter constraint that 3.7 meets and 3.8 does not
WPy ==
    Wheel(GoodName, WHEEL("1.0", "true"), METADATA(<<"Requires-Python: >=3.6, <3.8">>),
          <<"lib.py">> :> PySource)

\* a console script that names no callable
WBadEntry ==
    Wheel(GoodName, WHEEL("1.0", "true"), METADATA(<<>>),
          (<<"lib.py">> :> PySource)
          @@ (<<"pkg-1.0.dist-info", "entry_points.txt">> :>
                <<"[console_scripts]", "tool = pkg.cli">>))

WVersion2 ==
    Wheel(GoodName, WHEEL("2.0", "true"), METADATA(<<>>), <<"lib.py">> :> PySource)

\* a name with a build tag, a name one segment short, an unreadable archive
WTagged ==
    Wheel("pkg-1.0-1-py3-none-any.whl", WHEEL("1.0", "true"), METADATA(<<>>),
          <<"lib.py">> :> PySource)

WShort ==
    Wheel("pkg-1.0-py3-none.whl", WHEEL("1.0", "true"), METADATA(<<>>),
          <<"lib.py">> :> PySource)

WCorrupt == [WScripts EXCEPT !.corrupt = TRUE]

\* a directory among the packaged scripts
WScriptDir ==
    Wheel(GoodName, WHEEL("1.0", "true"), METADATA(<<>>),
          (<<"lib.py">> :> PySource)
          @@ (<<"pkg-1.0.data", "scripts", "sub", "tool">> :> <<"#!python">>))

\* the wheel argument left out
NoWheel == [name |-> "", corrupt |-> TRUE, files |-> <<>>]

D1 == <<"d1">>

D2 == <<"d2">>

DestDirs == { D1, D2 }

Roles == { "purelib", "platlib", "scripts" }

\* at the start the first destination root holds its role directories and
\* the second does not exist
RoleDirs(d) == MkTree(<<>>, { destdir_path(d, r) : r \in Roles })

OptimizeLevels == { <<>>, <<0, 1, 2>> }

Init ==
    /\ fs = RoleDirs(D1)
    /\ py_version \in Versions
    /\ packaging_ok = TRUE
    /\ log = <<>>
    /\ hist = [n |-> 0, build |-> "none", fresh |-> TRUE, good |-> FALSE,
               inst |-> [d \in DestDirs |-> "none"]]
    /\ name = ""
    /\ parsed = [done |-> FALSE]

\* the latest call: what ran, how it ended, and the arguments the properties
\* speak of
Call(op, r, built, installed, verify, destdir) ==
    [op |-> op, ok |-> r.err = "", err |-> r.err, warned |-> r.warned,
     build |-> built, install |-> installed, verify |-> verify, destdir |-> destdir]

\* hist.inst[d]: "one" when d has received one install, a successful one, and
\* no build has touched the cache since; "none" before any install into d
AfterInstall(d, ok) ==
    [hist.inst EXCEPT ![d] = IF @ = "none" /\ ok THEN "one" ELSE "other"]

AfterBuild == [d \in DestDirs |-> IF hist.inst[d] = "none" THEN "none" ELSE "other"]

\* the state after build returned r
Built(r, verify) ==
    /\ fs' = r.fs
    /\ log' = <<Call("build", r, IF r.err = "" THEN "ok" ELSE "failed", "skipped",
                     verify, <<>>)>>
    /\ hist' = [hist EXCEPT !.n = @ + 1,
                            !.build = IF r.err = "" THEN "ok" ELSE "failed",
                            !.fresh = ~exists(fs, cache_dir),
                            !.good = (@ /\ exists(fs, cache_dir)) \/ r.err = "",
                            !.inst = AfterBuild]
    /\ UNCHANGED <<py_version, packaging_ok, name, parsed>>

\* build(wheel, cache_dir, optimize, verify_dependencies)
Build(wheel, optimize, verify) ==
    /\ hist.n < MaxCalls
    /\ Built(build(fs, py_version, wheel, cache_dir, optimize, verify, packaging_ok), verify)

\* the state after install returned r
InstallDone(r, destdir) ==
    /\ fs' = r.fs
    /\ log' = <<Call("install", r, "skipped", IF r.err = "" THEN "ok" ELSE "failed",
                     FALSE, destdir)>>
    /\ hist' = [hist EXCEPT !.n = @ + 1, !.inst = AfterInstall(destdir, r.err = "")]
    /\ UNCHANGED <<py_version, packaging_ok, name, parsed>>

\* install(cache_dir, destdir)
Install(destdir, rev) ==
    /\ hist.n < MaxCalls
    /\ InstallDone(install(fs, py_version, cache_dir, destdir, rev, FALSE), destdir)

\* the state after the command line ended with r
Exited(r, args) ==
    /\ fs' = r.fs
    /\ log' = <<Call("main", r, r.build, r.install, args.verify_dependencies, args.destdir)>>
    /\ hist' = [hist EXCEPT
                  !.n = @ + 1,
                  !.build = IF r.build = "skipped" THEN @ ELSE r.build,
                  !.fresh = IF r.build = "skipped" THEN @ ELSE TRUE,
                  !.good = IF r.build = "skipped" THEN @ /\ exists(r.fs, cache_dir)
                           ELSE r.build = "ok",
                  !.inst = [d \in DestDirs |->
                              IF r.install # "skipped" /\ d = args.destdir
                              THEN IF @[d] = "none" /\ r.install = "ok"
                                   THEN "one" ELSE "other"
                              ELSE IF r.build = "skipped" \/ @[d] = "none" THEN @[d]
                              ELSE "other"]]
    /\ UNCHANGED <<py_version, packaging_ok, name, parsed>>

\* python -m install [wheel] [-d destdir] [-t] [-c | -s] [-w]
Main(args, rev) ==
    /\ hist.n < MaxCalls
    /\ Exited(main(fs, py_version, args, packaging_ok, rev), args)

\* Wheels that build: installed into both destination roots.
InstallWheels == { WScripts, WPlat, WNested }

Next ==
    \/ \E wheel \in InstallWheels, optimize \in OptimizeLevels : Build(wheel, optimize, FALSE)
    \/ \E destdir \in DestDirs, rev \in BOOLEAN : Install(destdir, rev)

Spec == Init /\ [][Next]_vars

\* The compatibility verifier: wheels that declare requirements, built with
\* and without dependency verification, with and without the packaging
\* modules.
VerifyWheels == { WDeps, WPy, WPlat }

InitVerify ==
    /\ fs = RoleDirs(D1)
    /\ py_version \in Versions
    /\ packaging_ok \in BOOLEAN
    /\ log = <<>>
    /\ hist = [n |-> 0, build |-> "none", fresh |-> TRUE, good |-> FALSE,
               inst |-> [d \in DestDirs |-> "none"]]
    /\ name = ""
    /\ parsed = [done |-> FALSE]

NextVerify ==
    \E wheel \in VerifyWheels, optimize \in OptimizeLevels, verify \in BOOLEAN :
        Build(wheel, optimize, verify)

SpecVerify == InitVerify /\ [][NextVerify]_vars

\* The cache across calls: one wheel that builds and one wheel that fails at
\* each step of build, through build and install and through the command
\* line.
FailingWheels == { WCorrupt, WShort, WTagged, WVersion2, WPy, WBadEntry, WScriptDir }

\* the command lines tried
Args(wheel, cache, skip_build) ==
    [wheel |-> wheel, optimize |-> <<0, 1, 2>>, destdir |-> D1,
     verify_dependencies |-> FALSE, cache |-> cache, skip_build |-> skip_build,
     ignore_incomplete_installation_warnings |-> FALSE]

ArgSets ==
    { Args(w, c, FALSE) : w \in {WScripts, WVersion2, WShort}, c \in BOOLEAN }
    \cup { Args(NoWheel, c, s) : c \in BOOLEAN, s \in BOOLEAN }

NextCache ==
    \/ \E wheel \in {WScripts} \cup FailingWheels : Build(wheel, <<0, 1, 2>>, FALSE)
    \/ Install(D1, FALSE)
    \/ \E args \in ArgSets : Main(args, FALSE)

SpecCache == Init /\ [][NextCache]_vars

(***************************************************************************)
(* Claims about the merger                                                 *)
(***************************************************************************)
\* the relative paths of the regular files of the tree below root
FilesAt(f, root) == { q \in DOMAIN TreeAt(f, root) : TreeAt(f, root)[q].kind = "file" }

\* no component of the relative path q is on the ignore list
NotIgnored(q, ignore) == \A i \in 1..Len(q) : q[i] \notin ignore

\* the merge recorded in e met a source file whose destination path was a
\* directory
FileOntoDir(e) ==
    \E q \in FilesAt(e.before, SRC) : NotIgnored(q, e.ignore) /\ isdir(e.before, DST \o q)

\* C4: a merge that finds a source file at a relative path p which is a
\* directory in the destination raises an error; it does not return normally
\* with the file written somewhere else.
C4_FileOntoDirRaises ==
    \A i \in 1..Len(log) :
        (log[i].op = "_copy_dir" /\ FileOntoDir(log[i])) => ~log[i].ok

\* C5: when the first merge succeeds, a second run of the same merge succeeds
\* and leaves the destination as the first run left it, and every file the
\* destination held at a relative path that does not occur in the source is
\* still there with its content after either run.
C5_IdempotentAdditive ==
    (log # <<>> /\ log[1].op = "_copy_dir" /\ log[1].ok) =>
        /\ Len(log) = 2 => (log[2].ok /\ fs = log[2].before)
        /\ \A q \in FilesAt(log[1].before, DST) :
              q \notin DOMAIN TreeAt(log[1].before, SRC) =>
                  (isfile(fs, DST \o q) /\ fs[DST \o q] = log[1].before[DST \o q])

\* the idempotent half of C5 on its own
C5_IdempotentOnly ==
    (Len(log) = 2 /\ log[1].op = "_copy_dir" /\ log[1].ok) =>
        (log[2].ok /\ fs = log[2].before)

(***************************************************************************)
(* The name parser on its own: a file name built of MinSegs..MaxSegs       *)
(* hyphen-separated segments and an extension, parsed once.                *)
(***************************************************************************)
SegPool == { "pkg", "1.0" }

Extensions == { ".whl", ".zip" }

RECURSIVE JoinSegs(_)
JoinSegs(segs) ==
    IF Len(segs) = 1 THEN segs[1] ELSE segs[1] \o "-" \o JoinSegs(Tail(segs))

Names ==
    { "pkg-1.2.3-py3-none-any.whl", "pkg-1.0-1-py3-none-any.whl" } \cup
    { JoinSegs(segs) \o ext :
        segs \in UNION { [1..n -> SegPool] : n \in MinSegs..MaxSegs }, ext \in Extensions }

NotParsed == [done |-> FALSE, ok |-> FALSE, info |-> parse_name("")]

InitParse ==
    /\ name \in Names
    /\ parsed = NotParsed
    /\ fs = <<>>
    /\ py_version \in Versions
    /\ packaging_ok = TRUE
    /\ log = <<>>
    /\ hist = [n |-> 0]

Parse ==
    /\ ~parsed.done
    /\ parsed' = [done |-> TRUE, ok |-> parse_name(name).ok, info |-> parse_name(name)]
    /\ UNCHANGED <<fs, py_version, packaging_ok, log, hist, name>>

NextParse == Parse

SpecParse == InitParse /\ [][NextParse]_vars

\* the hyphen-delimited segments of s
RECURSIVE Split(_, _)
Split(s, cur) ==
    IF s = "" THEN <<cur>>
    ELSE IF SubSeq(s, 1, 1) = "-" THEN <<cur>> \o Split(SubSeq(s, 2, Len(s)), "")
    ELSE Split(SubSeq(s, 2, Len(s)), cur \o SubSeq(s, 1, 1))

HasWhl(s) == Len(s) > 4 /\ SubSeq(s, Len(s) - 3, Len(s)) = ".whl"

Segments(s) == Split(SubSeq(s, 1, Len(s) - 4), "")

\* C3: a .whl name of five segments parses to distribution, version, no build
\* tag and the three tags; one of six segments to distribution, version, build
\* tag and the three tags; one of fewer than five segments is rejected.
C3_ParseBySegmentCount ==
    (parsed.done /\ HasWhl(name)) =>
        LET segs == Segments(name)
            info == parsed.info
        IN  /\ Len(segs) = 5 =>
                  /\ parsed.ok
                  /\ info.distribution = segs[1] /\ info.version = segs[2]
                  /\ info.build_tag = None
                  /\ info.python_tag = segs[3] /\ info.abi_tag = segs[4]
                  /\ info.platform_tag = segs[5]
            /\ Len(segs) = 6 =>
                  /\ parsed.ok
                  /\ info.distribution = segs[1] /\ info.version = segs[2]
                  /\ info.build_tag = segs[3]
                  /\ info.python_tag = segs[4] /\ info.abi_tag = segs[5]
                  /\ info.platform_tag = segs[6]
            /\ Len(segs) < 5 => ~parsed.ok

\* the five-segment and the short-name cases of C3 on their own
C3_FiveAndShort ==
    (parsed.done /\ HasWhl(name)) =>
        LET segs == Segments(name)
            info == parsed.info
        IN  /\ Len(segs) = 5 =>
                  /\ parsed.ok
                  /\ info.distribution = segs[1] /\ info.version = segs[2]
                  /\ info.build_tag = None
                  /\ info.python_tag = segs[3] /\ info.abi_tag = segs[4]
                  /\ info.platform_tag = segs[5]
            /\ Len(segs) < 5 => ~parsed.ok

(***************************************************************************)
(* Claims about build, install and the command line                        *)
(***************************************************************************)
\* the staging directory of the package, and what the cache records
pkg_cache == join(cache_dir, "pkg")

HasRecords(f) ==
    /\ _load_pickle(f, cache_dir, "wheel-info").err = ""
    /\ _load_pickle(f, cache_dir, "metadata").err = ""

StagedInfo(f) == _load_pickle(f, cache_dir, "wheel-info").data

StagedMeta(f) == _load_pickle(f, cache_dir, "metadata").data

\* <distribution>-<version>.data
StagedDataName(f) == StagedInfo(f)["distribution"] \o "-" \o StagedInfo(f)["version"] \o ".data"

\* the ignore list of step (a)
IgnoreOf(f) == { "purelib", "platlib", StagedDataName(f) }

\* the latest call ran install to the end
InstallOk == log # <<>> /\ log[1].install = "ok"

BuildCall == log # <<>> /\ log[1].op = "build"

\* the step just taken ran install
InstallStep == hist'.n # hist.n /\ log'[1].install # "skipped"

\* the files below the destination root d, by relative path
Content(d) == [q \in FilesAt(fs, d) |-> fs[d \o q].data]

\* C1: after a successful build of a wheel with Root-Is-Purelib: true and a
\* successful install, every library file at the staging root is under the
\* purelib path of the destination, and every packaged script
\* <distribution>-<version>.data/scripts/<name> is under the scripts path of
\* the destination with the first line "#!<interpreter>".
C1_EndToEnd ==
    (InstallOk /\ hist.build = "ok" /\ StagedMeta(fs)["Root-Is-Purelib"] = "true") =>
        \A q \in FilesAt(fs, pkg_cache) :
            /\ (Len(q) = 1 /\ endswith(q[1], ".py")) =>
                  isfile(fs, destdir_path(log[1].destdir, "purelib") \o q)
            /\ (Len(q) = 3 /\ q[1] = StagedDataName(fs) /\ q[2] = "scripts") =>
                  LET p == join(destdir_path(log[1].destdir, "scripts"), q[3])
                  IN  /\ isfile(fs, p)
                      /\ fs[p].data # <<>>
                      /\ fs[p].data[1] = "#!" \o sys_executable

\* the root-level payload step (a) copies: the staged files none of whose
\* path components is on the ignore list
Payload(f) == { q \in FilesAt(f, pkg_cache) : NotIgnored(q, IgnoreOf(f)) }

\* the role the root-level payload belongs to
Chosen(f) == IF StagedMeta(f)["Root-Is-Purelib"] = "true" THEN "purelib" ELSE "platlib"

\* C2: an install merges the root-level payload into the purelib path when
\* the recorded Root-Is-Purelib is "true" and into the platlib path for every
\* other value: after a successful install every top-level entry and every
\* payload file is there with its staged content, and no install, successful
\* or not, puts a payload file under the path of another role.
C2_RootPayloadRouting ==
    [][(InstallStep /\ HasRecords(fs)) =>
          LET d == log'[1].destdir
              to == destdir_path(d, Chosen(fs))
          IN  /\ log'[1].install = "ok" =>
                    /\ \A n \in listdir(fs, pkg_cache) \ IgnoreOf(fs) :
                          /\ exists(fs', join(to, n))
                          /\ isdir(fs', join(to, n)) = isdir(fs, join(pkg_cache, n))
                    /\ \A q \in Payload(fs) :
                          /\ isfile(fs', to \o q)
                          /\ fs'[to \o q].data = fs[pkg_cache \o q].data
              /\ \A r \in Roles \ {Chosen(fs)} : \A q \in Payload(fs) :
                    LET p == destdir_path(d, r) \o q
                    IN  exists(fs', p) => (exists(fs, p) /\ fs'[p] = fs[p])]_vars

\* C2 at work: a wheel whose Root-Is-Purelib is "True" installed into platlib
C2_Witness ==
    /\ InstallOk
    /\ StagedMeta(fs)["Root-Is-Purelib"] = "True"
    /\ isfile(fs, destdir_path(log[1].destdir, "platlib") \o <<"mypkg", "a.py">>)
    /\ ~exists(fs, destdir_path(log[1].destdir, "purelib") \o <<"mypkg">>)

\* C6: install leaves the tree below cache_dir as it found it, whether it
\* succeeds or fails; and two destination roots that each received one
\* successful install from the same cache hold the same files.
C6_InstallLeavesCache ==
    /\ [][(hist'.n # hist.n /\ log'[1].op = "install") =>
             TreeAt(fs', cache_dir) = TreeAt(fs, cache_dir)]_vars
    /\ []((hist.inst[D1] = "one" /\ hist.inst[D2] = "one") => Content(D1) = Content(D2))

\* C6 at work: one build, then an install into each destination root
C6_Witness ==
    /\ hist.inst[D1] = "one" /\ hist.inst[D2] = "one"
    /\ hist.build = "ok"
    /\ FilesAt(fs, D2) # {}

\* the METADATA file staged by the latest build, and what it requires
DistInfo == join(pkg_cache, "pkg-1.0.dist-info")

StagedRequiresDist == metadata_get_all(fs, DistInfo, "Requires-Dist")

WrongPython ==
    LET v == metadata_get_all(fs, DistInfo, "Requires-Python")
        specs == IF v = <<>> THEN <<>> ELSE split(v[1], ",", "")
    IN  \E i \in 1..Len(specs) : ~specifier_contains(specs[i], py_version)

UnmetDependency == \E i \in 1..Len(StagedRequiresDist) : ~_check_requirement(StagedRequiresDist[i])

\* C7 as stated: a build with verify_dependencies = False fails neither with
\* the incompatible-interpreter error nor with the missing-dependency error.
C7_NoChecksWithoutFlag ==
    (BuildCall /\ ~log[1].verify) =>
        log[1].err \notin { "InstallException: Incompatible python version",
                            "InstallException: Missing dependency" }

\* C7 as the code has it: only the Requires-Dist check waits for
\* verify_dependencies. A build with verify_dependencies = False never fails
\* with the missing-dependency error; with the packaging modules present, a
\* build of a wheel whose Requires-Python excludes the interpreter fails with
\* the incompatible-interpreter error whatever verify_dependencies is, and a
\* build with verify_dependencies = True of a wheel with an unmet
\* Requires-Dist fails with the missing-dependency error.
C7_OnlyRequiresDistGated ==
    /\ (BuildCall /\ ~log[1].verify) => log[1].err # "InstallException: Missing dependency"
    /\ (BuildCall /\ packaging_ok /\ WrongPython) =>
          log[1].err = "InstallException: Incompatible python version"
    /\ (BuildCall /\ packaging_ok /\ ~WrongPython /\ UnmetDependency) =>
          (log[1].verify <=> log[1].err = "InstallException: Missing dependency")

\* C7 at work: a wheel with an unmet Requires-Dist built without verification
C7_Witness ==
    /\ BuildCall /\ log[1].ok /\ ~log[1].verify
    /\ packaging_ok
    /\ UnmetDependency

\* C8: after a successful build and a successful install, every child of the
\* staged <distribution>-<version>.data directory named purelib, platlib or
\* scripts has its files under the path of that role, and the warning
\* "Unhandled data folder" is issued for a child exactly when it has another
\* name.
C8_DataChildren ==
    (InstallOk /\ hist.build = "ok") =>
        LET data == join(pkg_cache, StagedDataName(fs))
        IN  \A n \in listdir(fs, data) :
                /\ n \in Roles =>
                      \A q \in FilesAt(fs, join(data, n)) :
                          isfile(fs, destdir_path(log[1].destdir, n) \o q)
                /\ ("Unhandled data folder: " \o n) \in log[1].warned <=> n \notin Roles

\* C9: after a successful install every staged file is in the root library
\* destination unless it lies under a top-level entry named purelib, platlib
\* or <distribution>-<version>.data; a file below a directory of such a name
\* deeper in the payload is copied.
C9_IgnoreTopLevelOnly ==
    InstallOk =>
        \A q \in FilesAt(fs, pkg_cache) :
            q[1] \notin IgnoreOf(fs) =>
                isfile(fs, destdir_path(log[1].destdir, Chosen(fs)) \o q)

\* C10 as stated: install succeeds only if the most recent build on the
\* cache directory succeeded.
C10_LatestBuildSucceeded == InstallOk => hist.build = "ok"

\* C10 as the code has it: install succeeds, or writes anything below the
\* destination root, only if some build has succeeded on the cache directory
\* since the directory was created (hist.good); after a failed build that
\* began without the cache directory, as every build of the command line
\* does, install fails and copies nothing.
C10_SomeBuildSucceeded ==
    [][(InstallStep /\ (~hist'.good \/ (hist'.fresh /\ hist'.build # "ok"))) =>
          /\ log'[1].install = "failed"
          /\ TreeAt(fs', log'[1].destdir) = TreeAt(fs, log'[1].destdir)]_vars

\* C10 at work: install refused on the remains of a failed build
C10_Witness ==
    /\ log # <<>> /\ log[1].op = "install" /\ ~log[1].ok
    /\ hist.build = "failed" /\ hist.fresh
    /\ isdir(fs, pkg_cache)

====
